---------------------------- MODULE Spec2Model ----------------------------
(***************************************************************************)
(* Model of extension-rust/src/geometry.rs: the Point and Segment value    *)
(* types and their arithmetic over f64.                                    *)
(*                                                                         *)
(* f64 is modelled as an IEEE-754 binary floating-point format with        *)
(* Precision significand bits and exponents EMin..EMax, with signed zeros, *)
(* subnormals, signed infinities, NaN and round-to-nearest-even.  f64 is   *)
(* the instance Precision = 53, EMin = -1022, EMax = 1023; the model       *)
(* checks a narrower instance of the same arithmetic.                      *)
(***************************************************************************)
EXTENDS Integers, FiniteSets, Sequences, TLC

\* a, b : the Point operands (a Segment is built from a as start, b as end)
\* s    : the f64 scalar operand
\* ret  : per operation, whether it was invoked, on what, and what it returned
\* th, frame : the threads of the concurrent callers and their call frames
VARIABLES a, b, s, ret, th, frame

vars == <<a, b, s, ret, th, frame>>

---------------------------------------------------------------------------
(* The floating-point format.                                              *)

Precision == 5
EMax == 4
EMinDepth == 1

EMin == -EMinDepth

\* Exponent of the least significant bit of a number whose leading bit has
\* exponent EMin (resp. EMax).
ELsbMin == EMin - (Precision - 1)
ELsbMax == EMax - (Precision - 1)

Pow2(n) == 2 ^ n

Hidden == Pow2(Precision - 1)

\* A number is (-1)^sg * m * 2^e; normal when Hidden <= m < 2 * Hidden,
\* subnormal or zero when m < Hidden and e = ELsbMin.
NaN == [k |-> "nan", sg |-> 0, m |-> 0, e |-> 0]
Inf(sg) == [k |-> "inf", sg |-> sg, m |-> 0, e |-> 0]
Num(sg, m, e) == [k |-> "num", sg |-> sg, m |-> m, e |-> e]
Zero(sg) == Num(sg, 0, ELsbMin)

F64 ==
    {NaN} \cup {Inf(sg) : sg \in {0, 1}}
    \cup {Num(sg, m, ELsbMin) : sg \in {0, 1}, m \in 0 .. (Hidden - 1)}
    \cup {Num(sg, m, e) : sg \in {0, 1}, m \in Hidden .. (2 * Hidden - 1),
                          e \in ELsbMin .. ELsbMax}

IsNaN(x) == x.k = "nan"
IsInf(x) == x.k = "inf"
IsNum(x) == x.k = "num"
IsZero(x) == x.k = "num" /\ x.m = 0

RECURSIVE BitLen(_)
BitLen(n) == IF n = 0 THEN 0 ELSE 1 + BitLen(n \div 2)

Xor(p, q) == (p + q) % 2

\* Round-to-nearest, ties-to-even, of the real number (-1)^sg * (M + t) * 2^E
\* where 0 < t < 1 when sticky and t = 0 otherwise.  A sticky operand always
\* comes with at least Precision + 2 bits in M.
Round(sg, M, E, sticky) ==
    LET L == BitLen(M)
        e0 == E + L - Precision
        e1 == IF e0 < ELsbMin THEN ELsbMin ELSE e0
        sh == e1 - E
        q == IF sh <= 0 THEN M * Pow2(-sh) ELSE M \div Pow2(sh)
        r == IF sh <= 0 THEN 0 ELSE M % Pow2(sh)
        half == IF sh <= 0 THEN 1 ELSE Pow2(sh - 1)
        up == sh > 0 /\ (r > half \/ (r = half /\ (sticky \/ q % 2 = 1)))
        m1 == IF up THEN q + 1 ELSE q
        carry == m1 = 2 * Hidden
        m2 == IF carry THEN Hidden ELSE m1
        e2 == IF carry THEN e1 + 1 ELSE e1
    IN  IF e2 > ELsbMax THEN Inf(sg) ELSE Num(sg, m2, e2)

FNeg(x) == IF IsNaN(x) THEN NaN ELSE [x EXCEPT !.sg = 1 - x.sg]

\* The integer x / 2^ELsbMin of a number x.
Scaled(x) == (IF x.sg = 1 THEN -1 ELSE 1) * x.m * Pow2(x.e - ELsbMin)

Abs(n) == IF n < 0 THEN -n ELSE n

\* f64 + f64
FAdd(x, y) ==
    IF IsNaN(x) \/ IsNaN(y) THEN NaN
    ELSE IF IsInf(x) /\ IsInf(y) THEN (IF x.sg = y.sg THEN x ELSE NaN)
    ELSE IF IsInf(x) THEN x
    ELSE IF IsInf(y) THEN y
    ELSE LET sum == Scaled(x) + Scaled(y)
         IN  IF sum = 0
             THEN (IF x.sg = 1 /\ y.sg = 1 THEN Zero(1) ELSE Zero(0))
             ELSE Round(IF sum < 0 THEN 1 ELSE 0, Abs(sum), ELsbMin, FALSE)

\* f64 - f64
FSub(x, y) == FAdd(x, FNeg(y))

\* f64 * f64
FMul(x, y) ==
    IF IsNaN(x) \/ IsNaN(y) THEN NaN
    ELSE IF (IsInf(x) /\ IsZero(y)) \/ (IsZero(x) /\ IsInf(y)) THEN NaN
    ELSE IF IsInf(x) \/ IsInf(y) THEN Inf(Xor(x.sg, y.sg))
    ELSE IF x.m = 0 \/ y.m = 0 THEN Zero(Xor(x.sg, y.sg))
    ELSE Round(Xor(x.sg, y.sg), x.m * y.m, x.e + y.e, FALSE)

\* f64 / f64
FDiv(x, y) ==
    IF IsNaN(x) \/ IsNaN(y) THEN NaN
    ELSE IF (IsInf(x) /\ IsInf(y)) \/ (IsZero(x) /\ IsZero(y)) THEN NaN
    ELSE IF IsInf(x) \/ IsZero(y) THEN Inf(Xor(x.sg, y.sg))
    ELSE IF IsInf(y) \/ IsZero(x) THEN Zero(Xor(x.sg, y.sg))
    ELSE LET K == 2 * Precision + 2
             n == x.m * Pow2(K)
         IN  Round(Xor(x.sg, y.sg), n \div y.m, x.e - y.e - K, n % y.m # 0)

\* Floor of the square root of n, found bit by bit from bit downwards.
RECURSIVE ISqrt(_, _, _)
ISqrt(n, bit, acc) ==
    IF bit = 0 THEN acc
    ELSE ISqrt(n, bit \div 2,
               IF (acc + bit) * (acc + bit) <= n THEN acc + bit ELSE acc)

\* f64::sqrt
FSqrt(x) ==
    IF IsNaN(x) THEN NaN
    ELSE IF IsZero(x) THEN x
    ELSE IF x.sg = 1 THEN NaN
    ELSE IF IsInf(x) THEN x
    ELSE LET K == 2 * Precision + 2 + (x.e % 2)
             n == x.m * Pow2(K)
             r == ISqrt(n, Pow2((3 * Precision + 4) \div 2), 0)
         IN  Round(0, r, (x.e - K) \div 2, r * r # n)

\* f64 == f64
FEq(x, y) ==
    /\ ~IsNaN(x)
    /\ ~IsNaN(y)
    /\ (x = y \/ (IsZero(x) /\ IsZero(y)))

---------------------------------------------------------------------------
(* Point and Segment.                                                      *)

Point(x, y) == [x |-> x, y |-> y]
Segment(start, end) == [start |-> start, end |-> end]

\* #[derive(PartialEq)] for Point
PointEq(p, q) == FEq(p.x, q.x) /\ FEq(p.y, q.y)

origin == Point(Zero(0), Zero(0))

\* Mutant: the square root is left out.
magnitude_no_sqrt(self) ==
    FAdd(FMul(self.x, self.x), FMul(self.y, self.y))

magnitude(self) ==
    FSqrt(FAdd(FMul(self.x, self.x), FMul(self.y, self.y)))

\* Mutant: y takes other.x.
add_y_from_x(self, other) == Point(FAdd(self.x, other.x), FAdd(self.y, other.x))

add(self, other) == Point(FAdd(self.x, other.x), FAdd(self.y, other.y))

\* Mutant: the operands are swapped.
sub_swapped(self, other) == Point(FSub(other.x, self.x), FSub(other.y, self.y))

sub(self, other) == Point(FSub(self.x, other.x), FSub(self.y, other.y))

\* impl Mul<f64> for Point
mul(self, other) == Point(FMul(self.x, other), FMul(self.y, other))

\* Mutant: y takes other.x.
mul_f64_y_from_x(self, other) == Point(FMul(self, other.x), FMul(self, other.x))

\* impl Mul<Point> for f64
mul_f64(self, other) == Point(FMul(self, other.x), FMul(self, other.y))

\* Mutant: y takes self.x.
div_y_from_x(self, other) == Point(FDiv(self.x, other), FDiv(self.x, other))

\* Mutant: a zero divisor is refused and the point returned as it is.
div_guarded(self, other) ==
    IF IsZero(other) THEN self
    ELSE Point(FDiv(self.x, other), FDiv(self.y, other))

div(self, other) == Point(FDiv(self.x, other), FDiv(self.y, other))

\* Mutant: the squares are subtracted.
length_minus(self) ==
    LET dx == FSub(self.end.x, self.start.x)
        dy == FSub(self.end.y, self.start.y)
    IN  FSqrt(FSub(FMul(dx, dx), FMul(dy, dy)))

\* Mutant: dy is taken from start.x.
length_dy_from_x(self) ==
    LET dx == FSub(self.end.x, self.start.x)
        dy == FSub(self.end.y, self.start.x)
    IN  FSqrt(FAdd(FMul(dx, dx), FMul(dy, dy)))

\* Mutant: dx is a sum.
length_dx_sum(self) ==
    LET dx == FAdd(self.end.x, self.start.x)
        dy == FSub(self.end.y, self.start.y)
    IN  FSqrt(FAdd(FMul(dx, dx), FMul(dy, dy)))

length(self) ==
    LET dx == FSub(self.end.x, self.start.x)
        dy == FSub(self.end.y, self.start.y)
    IN  FSqrt(FAdd(FMul(dx, dx), FMul(dy, dy)))

---------------------------------------------------------------------------
(* Literals and operand sets.                                              *)

\* An integer literal n.0
FromInt(n) == IF n = 0 THEN Zero(0) ELSE Round(IF n < 0 THEN 1 ELSE 0, Abs(n), 0, FALSE)

\* A decimal literal n/d with d > 0 and n # 0, rounded to the nearest f64
\* (1.3 is Lit(13, 10))
Lit(n, d) ==
    LET K == 2 * Precision + 2 + BitLen(d)
        num == Abs(n) * Pow2(K)
    IN  Round(IF n < 0 THEN 1 ELSE 0, num \div d, -K, num % d # 0)

MinSub == Num(0, 1, ELsbMin)
MinNormal == Num(0, Hidden, ELsbMin)
MaxFin == Num(0, 2 * Hidden - 1, ELsbMax)

---------------------------------------------------------------------------
(* Calls.                                                                  *)

OpNames == {"origin", "magnitude", "add", "sub", "mul", "mul_f64", "div", "length"}

NoCall == [done |-> FALSE, args |-> <<>>, out |-> NaN]
Call(args, out) == [done |-> TRUE, args |-> args, out |-> out]

NoCalls == [o \in OpNames |-> NoCall]

Origin ==
    /\ ~ret["origin"].done
    /\ ret' = [ret EXCEPT !["origin"] = Call(<<>>, origin)]
    /\ UNCHANGED <<a, b, s, th, frame>>

Magnitude(p) ==
    /\ ~ret["magnitude"].done
    /\ ret' = [ret EXCEPT !["magnitude"] = Call(<<p>>, magnitude(p))]
    /\ UNCHANGED <<a, b, s, th, frame>>

Add(l, r) ==
    /\ ~ret["add"].done
    /\ ret' = [ret EXCEPT !["add"] = Call(<<l, r>>, add(l, r))]
    /\ UNCHANGED <<a, b, s, th, frame>>

Sub(l, r) ==
    /\ ~ret["sub"].done
    /\ ret' = [ret EXCEPT !["sub"] = Call(<<l, r>>, sub(l, r))]
    /\ UNCHANGED <<a, b, s, th, frame>>

Mul(p, f) ==
    /\ ~ret["mul"].done
    /\ ret' = [ret EXCEPT !["mul"] = Call(<<p, f>>, mul(p, f))]
    /\ UNCHANGED <<a, b, s, th, frame>>

MulF64(f, p) ==
    /\ ~ret["mul_f64"].done
    /\ ret' = [ret EXCEPT !["mul_f64"] = Call(<<f, p>>, mul_f64(f, p))]
    /\ UNCHANGED <<a, b, s, th, frame>>

Div(p, f) ==
    /\ ~ret["div"].done
    /\ ret' = [ret EXCEPT !["div"] = Call(<<p, f>>, div(p, f))]
    /\ UNCHANGED <<a, b, s, th, frame>>

Length(seg) ==
    /\ ~ret["length"].done
    /\ ret' = [ret EXCEPT !["length"] = Call(<<seg>>, length(seg))]
    /\ UNCHANGED <<a, b, s, th, frame>>

\* The Point results a later call may take as an operand.
OutOf(o) == IF ret[o].done THEN {ret[o].out} ELSE {}

NoThreads == <<>>

---------------------------------------------------------------------------
(* Magnitude of one point.                                                 *)

InitMagnitude ==
    /\ \E x \in F64, y \in F64 : a = Point(x, y)
    /\ b = origin
    /\ s = Zero(0)
    /\ ret = NoCalls
    /\ th = NoThreads
    /\ frame = NoThreads

NextMagnitude == Magnitude(a)

SpecMagnitude == InitMagnitude /\ [][NextMagnitude]_vars

---------------------------------------------------------------------------
(* Real-number reading of the operands, used to state what the results     *)
(* should be.                                                              *)

\* The non-negative real M * 2^E is a number of the format.
Exact(M, E) ==
    LET r == Round(0, M, E, FALSE)
    IN  /\ IsNum(r)
        /\ IF r.e >= E THEN r.m * Pow2(r.e - E) = M ELSE r.m = M * Pow2(E - r.e)

\* Floor of the square root of a sum of two squares of scaled numbers.
Root(n) == ISqrt(n, Pow2(Precision + EMax - EMin + 1), 0)

\* dx, dy: two real numbers, as integer multiples of 2^ELsbMin.  They are the
\* legs of a right triangle whose hypotenuse h is a number of the format.
HasHypotenuse(dx, dy) ==
    LET n == dx * dx + dy * dy
        h == Root(n)
    IN  h * h = n /\ Exact(h, ELsbMin)

Hypotenuse(dx, dy) == Round(0, Root(dx * dx + dy * dy), ELsbMin, FALSE)

\* The squares of dx and dy and their sum are numbers of the format: the
\* products and the sum are computed without rounding, overflow or underflow.
SquaresExact(dx, dy) ==
    /\ Exact(dx * dx, 2 * ELsbMin)
    /\ Exact(dy * dy, 2 * ELsbMin)
    /\ Exact(dx * dx + dy * dy, 2 * ELsbMin)

IsFinite(p) == IsNum(p.x) /\ IsNum(p.y)

---------------------------------------------------------------------------
(* C6: the statement as claimed.  Point::magnitude() returns h for every   *)
(* point whose coordinates satisfy x*x + y*y == h*h, h >= 0.               *)
C6_MagnitudeOfEveryTriangle ==
    LET c == ret["magnitude"]
        p == c.args[1]
    IN  (c.done /\ IsFinite(p) /\ HasHypotenuse(Scaled(p.x), Scaled(p.y)))
            => FEq(c.out, Hypotenuse(Scaled(p.x), Scaled(p.y)))

(* C6, amended: magnitude() returns h exactly for every point with         *)
(* x*x + y*y == h*h, h >= 0, provided x*x, y*y and their sum are exactly    *)
(* representable (computed without rounding, overflow or underflow),        *)
(* whatever the signs of x and y and whichever is larger; magnitude(0,0)    *)
(* is 0 and magnitude(3,4) and magnitude(4,3) are 5.                        *)
C6_MagnitudeOfExactTriangle ==
    LET c == ret["magnitude"]
        p == c.args[1]
    IN  c.done =>
          /\ (IsFinite(p)
              /\ HasHypotenuse(Scaled(p.x), Scaled(p.y))
              /\ SquaresExact(Scaled(p.x), Scaled(p.y)))
                => c.out = Hypotenuse(Scaled(p.x), Scaled(p.y))
          /\ (IsZero(p.x) /\ IsZero(p.y)) => c.out = Zero(0)
          /\ \A x \in {FromInt(3), FromInt(-3)}, y \in {FromInt(4), FromInt(-4)} :
                (p = Point(x, y) \/ p = Point(y, x)) => c.out = FromInt(5)

C6_Witness ==
    /\ ret["magnitude"].done
    /\ ret["magnitude"].args[1] = Point(FromInt(-3), FromInt(4))
    /\ ret["magnitude"].out = FromInt(5)

---------------------------------------------------------------------------
(* Length of a segment, beside the magnitude of end - start.               *)

\* The largest number whose square rounds to zero, and the next number.
TinyMax == Num(0, Pow2((-ELsbMin - 1) \div 2), ELsbMin)
TinyNext == Num(0, Pow2((-ELsbMin - 1) \div 2) + 1, ELsbMin)

StartX == {NaN, Inf(0), Zero(0), Zero(1), MinSub, TinyNext, FromInt(17), FNeg(MaxFin)}
StartY == {NaN, Zero(0), FromInt(1)}
EndY == {NaN, Zero(0), TinyMax, FromInt(1), FromInt(4), FromInt(5)}

InitSegment ==
    /\ \E x \in StartX, y \in StartY : a = Point(x, y)
    /\ \E x \in F64, y \in EndY : b = Point(x, y)
    /\ s = Zero(0)
    /\ ret = NoCalls
    /\ th = NoThreads
    /\ frame = NoThreads

NextSegment ==
    \/ Length(Segment(a, b))
    \/ Sub(b, a)
    \/ \E p \in OutOf("sub") : Magnitude(p)

SpecSegment == InitSegment /\ [][NextSegment]_vars

\* The real differences end - start, as integer multiples of 2^ELsbMin.
RealDx(seg) == Scaled(seg.end.x) - Scaled(seg.start.x)
RealDy(seg) == Scaled(seg.end.y) - Scaled(seg.start.y)

SegFinite(seg) == IsFinite(seg.start) /\ IsFinite(seg.end)

\* x < 0.0
FLt0(x) == ~IsNaN(x) /\ ~IsZero(x) /\ x.sg = 1

\* x >= 0.0
FGe0(x) == ~IsNaN(x) /\ (IsZero(x) \/ x.sg = 0)

\* The square of the real d * 2^ELsbMin is at most half the smallest
\* subnormal: it rounds to zero.
SquareUnderflows(d) == 2 * d * d <= Pow2(-ELsbMin)

(* C4: the statement as claimed.  length() is non-negative (read as: never *)
(* below zero), and it is zero exactly when start == end field-wise.       *)
C4_LengthZeroIffEqual ==
    LET c == ret["length"]
        seg == c.args[1]
    IN  c.done =>
          /\ ~FLt0(c.out)
          /\ IsZero(c.out) <=> PointEq(seg.start, seg.end)

(* C4, amended: length() is never negative (it is NaN or >= +0, and        *)
(* >= +0 when the coordinates are finite); when start == end field-wise    *)
(* and the coordinates are finite, length() == 0; and length() == 0        *)
(* exactly when the coordinates are finite and each coordinate difference  *)
(* is zero or so small that its square underflows to zero, so a zero       *)
(* length does not imply start == end.                                     *)
C4_LengthZeroIffSquaresVanish ==
    LET c == ret["length"]
        seg == c.args[1]
    IN  c.done =>
          /\ IsNaN(c.out) \/ c.out.sg = 0
          /\ SegFinite(seg) => FGe0(c.out)
          /\ (SegFinite(seg) /\ PointEq(seg.start, seg.end)) => IsZero(c.out)
          /\ IsZero(c.out) <=>
                /\ SegFinite(seg)
                /\ SquareUnderflows(RealDx(seg))
                /\ SquareUnderflows(RealDy(seg))

\* A zero length of a segment whose ends differ, and a segment of equal ends
\* and no zero length.
C4_Witness ==
    /\ ret["length"].done
    /\ a = Point(Zero(0), Zero(0))
    /\ b = Point(MinSub, Zero(0))
    /\ IsZero(ret["length"].out)

(* C5: the statement as claimed.  length() == h for every segment whose    *)
(* coordinate differences satisfy dx*dx + dy*dy == h*h, h >= 0, wherever   *)
(* the segment lies.                                                       *)
C5_LengthOfEveryTriangle ==
    LET c == ret["length"]
        seg == c.args[1]
    IN  (c.done /\ SegFinite(seg) /\ HasHypotenuse(RealDx(seg), RealDy(seg)))
            => FEq(c.out, Hypotenuse(RealDx(seg), RealDy(seg)))

(* C5, amended: length() == h exactly for every segment whose coordinate   *)
(* differences satisfy dx*dx + dy*dy == h*h, h >= 0, provided dx, dy,      *)
(* their squares and the sum of the squares are exactly representable      *)
(* (computed without rounding, overflow or underflow), wherever the        *)
(* segment lies: origin-(3,4) and (17,1)-(20,5) both give 5.               *)
C5_LengthOfExactTriangle ==
    LET c == ret["length"]
        seg == c.args[1]
    IN  c.done =>
          /\ (/\ SegFinite(seg)
              /\ HasHypotenuse(RealDx(seg), RealDy(seg))
              /\ Exact(Abs(RealDx(seg)), ELsbMin)
              /\ Exact(Abs(RealDy(seg)), ELsbMin)
              /\ SquaresExact(RealDx(seg), RealDy(seg)))
                => c.out = Hypotenuse(RealDx(seg), RealDy(seg))
          /\ (seg.start = origin /\ seg.end = Point(FromInt(3), FromInt(4)))
                => c.out = FromInt(5)
          /\ (seg.start = Point(FromInt(17), FromInt(1))
              /\ seg.end = Point(FromInt(20), FromInt(5)))
                => c.out = FromInt(5)

C5_Witness ==
    /\ ret["length"].done
    /\ a = Point(FromInt(17), FromInt(1))
    /\ b = Point(FromInt(20), FromInt(5))
    /\ ret["length"].out = FromInt(5)

(* C10: Segment{start: a, end: b}.length() returns the same value as       *)
(* (b - a).magnitude() and as Segment{start: b, end: a}.length(): the same *)
(* number, the same infinity, or NaN where the other is NaN.               *)
C10_LengthIsMagnitudeOfDifference ==
    LET c == ret["length"]
        d == ret["sub"]
        m == ret["magnitude"]
    IN  /\ (c.done /\ m.done) =>
              /\ d.args = <<c.args[1].end, c.args[1].start>>
              /\ m.args = <<d.out>>
              /\ c.out = m.out
        /\ c.done => c.out = length(Segment(c.args[1].end, c.args[1].start))

C10_Witness ==
    /\ ret["length"].done
    /\ ret["magnitude"].done
    /\ a = Point(FromInt(17), FromInt(1))
    /\ b = Point(FromInt(20), FromInt(5))
    /\ ret["sub"].out = Point(FromInt(3), FromInt(4))
    /\ ret["magnitude"].out = FromInt(5)

---------------------------------------------------------------------------
(* Sums and differences of two points, and of a point and origin().        *)

SumX == {NaN, Inf(0), Inf(1), Zero(1), FromInt(1), MaxFin}
SumY == {Zero(0), FromInt(2)}

InitSum ==
    /\ \E x \in F64, y \in SumY \cup {NaN} : a = Point(x, y)
    /\ \E x \in SumX, y \in SumY : b = Point(x, y)
    /\ s = Zero(0)
    /\ ret = NoCalls
    /\ th = NoThreads
    /\ frame = NoThreads

NextSum ==
    \/ Origin
    \/ Add(a, b)
    \/ Sub(a, b)
    \/ \E o \in OutOf("origin") : Add(o, a)
    \/ \E o \in OutOf("origin") : Sub(a, o)

SpecSum == InitSum /\ [][NextSum]_vars

HasNaN(p) == IsNaN(p.x) \/ IsNaN(p.y)

(* C2: the statement as claimed.  For all points p, origin() + p == p and  *)
(* p - origin() == p under Point equality.                                 *)
C2_OriginIsIdentity ==
    LET o == ret["origin"]
        c == ret["add"]
        d == ret["sub"]
    IN  /\ (o.done /\ c.done /\ c.args[1] = o.out) => PointEq(c.out, c.args[2])
        /\ (o.done /\ d.done /\ d.args[2] = o.out) => PointEq(d.out, d.args[1])

(* C2, amended: for all points p with no NaN coordinate, origin() + p == p *)
(* and p - origin() == p under Point equality; when a coordinate of p is   *)
(* NaN, the same coordinate of the result is NaN and the comparison is     *)
(* false.                                                                  *)
C2_OriginIsIdentityOffNaN ==
    LET o == ret["origin"]
        c == ret["add"]
        d == ret["sub"]
        Law(p, r) ==
            /\ ~HasNaN(p) => PointEq(r, p)
            /\ IsNaN(p.x) <=> IsNaN(r.x)
            /\ IsNaN(p.y) <=> IsNaN(r.y)
            /\ HasNaN(p) => ~PointEq(r, p)
    IN  /\ (o.done /\ c.done /\ c.args[1] = o.out) => Law(c.args[2], c.out)
        /\ (o.done /\ d.done /\ d.args[2] = o.out) => Law(d.args[1], d.out)

C2_Witness ==
    /\ ret["origin"].done
    /\ a = Point(Lit(13, 10), FromInt(2))
    /\ ret["add"].done
    /\ ret["add"].args = <<ret["origin"].out, a>>
    /\ PointEq(ret["add"].out, a)
    /\ ret["sub"].done
    /\ ret["sub"].args = <<a, ret["origin"].out>>
    /\ PointEq(ret["sub"].out, a)

\* The real sum (diff = 1) or difference (diff = -1) of two finite numbers is
\* a number of the format.
SumExact(x, y, sign) == Exact(Abs(Scaled(x) + sign * Scaled(y)), ELsbMin)

(* C7: add(a, b) returns the component-wise sum (a.x + b.x, a.y + b.y) and *)
(* subtract(a, b) the component-wise difference with the left operand as   *)
(* minuend (a.x - b.x, a.y - b.y): the f64 sum and difference of the       *)
(* coordinates, which is the real sum and difference whenever that is      *)
(* representable; add((1,2),(1,0)) == (2,2), and                           *)
(* subtract((1,0),(1,2)) == (0,-2), which is not subtract((1,2),(1,0)).    *)
C7_AddSubComponentWise ==
    LET c == ret["add"]
        d == ret["sub"]
        Real(l, r, o, sign) ==
            (IsNum(l) /\ IsNum(r) /\ SumExact(l, r, sign))
                => IsNum(o) /\ Scaled(o) = Scaled(l) + sign * Scaled(r)
    IN  /\ c.done =>
            LET l == c.args[1]
                r == c.args[2]
            IN  /\ c.out = Point(FAdd(l.x, r.x), FAdd(l.y, r.y))
                /\ Real(l.x, r.x, c.out.x, 1)
                /\ Real(l.y, r.y, c.out.y, 1)
                /\ (l = Point(FromInt(1), FromInt(2)) /\ r = Point(FromInt(1), FromInt(0)))
                      => PointEq(c.out, Point(FromInt(2), FromInt(2)))
        /\ d.done =>
            LET l == d.args[1]
                r == d.args[2]
            IN  /\ d.out = Point(FSub(l.x, r.x), FSub(l.y, r.y))
                /\ Real(l.x, r.x, d.out.x, -1)
                /\ Real(l.y, r.y, d.out.y, -1)
                /\ (l = Point(FromInt(1), FromInt(0)) /\ r = Point(FromInt(1), FromInt(2)))
                      => /\ PointEq(d.out, Point(FromInt(0), FromInt(-2)))
                         /\ ~PointEq(d.out, sub(r, l))

C7_Witness ==
    /\ a = Point(FromInt(1), FromInt(0))
    /\ b = Point(FromInt(1), FromInt(2))
    /\ ret["add"].done
    /\ ret["add"].args = <<a, b>>
    /\ PointEq(ret["add"].out, Point(FromInt(2), FromInt(2)))
    /\ ret["sub"].done
    /\ ret["sub"].args = <<a, b>>
    /\ PointEq(ret["sub"].out, Point(FromInt(0), FromInt(-2)))

---------------------------------------------------------------------------
(* Scaling a point: both multiplications, and the division of the point    *)
(* and of the product.                                                     *)

ScaleY == {Zero(1), FromInt(2), Lit(13, 10)}

ScaleS ==
    {NaN, Inf(0), Inf(1), Zero(0), Zero(1), MinSub, MinNormal, MaxFin,
     FromInt(1), FromInt(2), FromInt(4), FromInt(-3), FromInt(10),
     Lit(13, 10), Lit(1, 3), Lit(-7, 10)}

InitScale ==
    /\ \E x \in F64, y \in ScaleY : a = Point(x, y)
    /\ b = origin
    /\ s \in ScaleS
    /\ ret = NoCalls
    /\ th = NoThreads
    /\ frame = NoThreads

NextScale ==
    \/ Mul(a, s)
    \/ MulF64(s, a)
    \/ Div(a, s)
    \/ \E p \in OutOf("mul") : Div(p, s)

SpecScale == InitScale /\ [][NextScale]_vars

(* C1: the statement as claimed.  For all points p and scalars s,          *)
(* multiply(p, s) == multiply(s, p) under Point equality.                  *)
C1_MulCommutes ==
    LET c == ret["mul"]
        d == ret["mul_f64"]
    IN  (c.done /\ d.done) => PointEq(c.out, d.out)

(* C1, amended: for all points p and scalars s, multiply(p, s) and         *)
(* multiply(s, p) return the same coordinates, each the coordinate of p    *)
(* scaled by s; the two points compare == exactly when no coordinate of    *)
(* the product is NaN (a NaN operand, or zero times infinity, gives NaN,   *)
(* and NaN != NaN).  (1.3, 2.0) * 4.0 and 4.0 * (1.3, 2.0) are (5.2, 8.0). *)
C1_MulSameCoordinates ==
    LET c == ret["mul"]
        d == ret["mul_f64"]
    IN  /\ c.done => c.out = Point(FMul(c.args[1].x, c.args[2]),
                                   FMul(c.args[1].y, c.args[2]))
        /\ (c.done /\ d.done) =>
              /\ c.args = <<d.args[2], d.args[1]>>
              /\ c.out = d.out
              /\ PointEq(c.out, d.out) <=> ~HasNaN(c.out)
              /\ (c.args = <<Point(Lit(13, 10), FromInt(2)), FromInt(4)>>)
                    => /\ PointEq(c.out, Point(Lit(52, 10), FromInt(8)))
                       /\ PointEq(d.out, Point(Lit(52, 10), FromInt(8)))

C1_Witness ==
    /\ a = Point(Lit(13, 10), FromInt(2))
    /\ s = FromInt(4)
    /\ ret["mul"].done
    /\ ret["mul_f64"].done
    /\ PointEq(ret["mul"].out, ret["mul_f64"].out)
    /\ PointEq(ret["mul_f64"].out, Point(Lit(52, 10), FromInt(8)))

\* r is x within the relative tolerance f64::EPSILON = 2^(1 - Precision).
Within(r, x) ==
    /\ IsNum(r)
    /\ IsNum(x)
    /\ Abs(Scaled(r) - Scaled(x)) * Hidden <= Abs(Scaled(x))

\* The product prod of the finite number x and a finite nonzero scalar
\* neither overflowed nor underflowed: it is zero because x is, or it is a
\* normal number.
InRange(x, prod) == IsZero(x) \/ (IsNum(prod) /\ prod.m >= Hidden)

\* divide(multiply(p, f), f) was computed, for finite p and finite nonzero f.
RoundTripDone ==
    /\ ret["mul"].done
    /\ ret["div"].done
    /\ ret["div"].args = <<ret["mul"].out, ret["mul"].args[2]>>
    /\ IsFinite(ret["mul"].args[1])
    /\ IsNum(ret["mul"].args[2])
    /\ ~IsZero(ret["mul"].args[2])

(* C3: the statement as claimed, for finite operands.  For all points p    *)
(* and nonzero scalars s, divide(multiply(p, s), s) == p within            *)
(* floating-point tolerance.                                               *)
C3_RoundTrip ==
    LET p == ret["mul"].args[1]
        r == ret["div"].out
    IN  RoundTripDone => Within(r.x, p.x) /\ Within(r.y, p.y)

(* C3, amended: for all points p with finite coordinates and all finite    *)
(* nonzero scalars s such that neither coordinate product p.x * s, p.y * s *)
(* overflows to infinity or underflows below the smallest normal number,   *)
(* divide(multiply(p, s), s) == p within the relative tolerance            *)
(* f64::EPSILON, coordinate by coordinate.                                 *)
C3_RoundTripInRange ==
    LET p == ret["mul"].args[1]
        q == ret["mul"].out
        r == ret["div"].out
    IN  (RoundTripDone /\ InRange(p.x, q.x) /\ InRange(p.y, q.y))
            => Within(r.x, p.x) /\ Within(r.y, p.y)

\* A round trip that returns a neighbour of p.x, within the tolerance.
C3_Witness ==
    /\ RoundTripDone
    /\ InRange(a.x, ret["mul"].out.x)
    /\ InRange(a.y, ret["mul"].out.y)
    /\ ret["div"].out.x # a.x
    /\ ~IsZero(a.x)
    /\ Within(ret["div"].out.x, a.x)
    /\ ret["div"].out.y = a.y

\* x is a value of the format.
WellFormed(x) ==
    \/ x = NaN
    \/ x \in {Inf(0), Inf(1)}
    \/ /\ IsNum(x)
       /\ x.sg \in {0, 1}
       /\ x.e \in ELsbMin .. ELsbMax
       /\ x.m \in 0 .. (2 * Hidden - 1)
       /\ x.m < Hidden => x.e = ELsbMin

(* C8: divide(point, scalar) returns a Point for every point and every     *)
(* scalar and has no error outcome; with scalar == 0.0 (of either sign) a   *)
(* coordinate that is a nonzero number gives an infinity, whose sign is    *)
(* the product of the signs of the coordinate and of the zero, and a zero  *)
(* (or NaN) coordinate gives NaN.                                          *)
C8_DivTotal ==
    LET c == ret["div"]
        p == c.args[1]
        f == c.args[2]
        ByZero(x, r) ==
            IF IsZero(x) \/ IsNaN(x) THEN IsNaN(r) ELSE r = Inf(Xor(x.sg, f.sg))
    IN  c.done =>
          /\ DOMAIN c.out = {"x", "y"}
          /\ WellFormed(c.out.x)
          /\ WellFormed(c.out.y)
          /\ IsZero(f) => ByZero(p.x, c.out.x) /\ ByZero(p.y, c.out.y)

C8_Witness ==
    /\ ret["div"].done
    /\ a = Point(FromInt(-7), Zero(1))
    /\ s = Zero(0)
    /\ ret["div"].args = <<a, s>>
    /\ ret["div"].out = Point(Inf(1), NaN)

---------------------------------------------------------------------------
(* Concurrent callers.  Every operation takes its operands by value: an    *)
(* invocation moves them into the frame of the calling thread's own stack  *)
(* and computes from that frame alone.                                     *)

NumThreads == 2

Threads == 1 .. NumThreads

Operands(p, q, f) == [p |-> p, q |-> q, f |-> f]

OperandSets ==
    {Operands(Point(FromInt(3), FromInt(4)), origin, FromInt(2)),
     Operands(Point(FromInt(17), FromInt(1)), Point(FromInt(20), FromInt(5)), Zero(0)),
     Operands(Point(NaN, Inf(1)), Point(Lit(13, 10), FromInt(2)), FromInt(-3))}

\* The result of operation op on the operands args.
Apply(op, args) ==
    CASE op = "origin" -> origin
      [] op = "magnitude" -> magnitude(args.p)
      [] op = "add" -> add(args.p, args.q)
      [] op = "sub" -> sub(args.p, args.q)
      [] op = "mul" -> mul(args.p, args.f)
      [] op = "mul_f64" -> mul_f64(args.f, args.p)
      [] op = "div" -> div(args.p, args.f)
      [] op = "length" -> length(Segment(args.p, args.q))

\* Mutant: every thread's call uses one shared frame.
StackOfShared(t) == 1

\* The stack that holds the frame of thread t's call.
StackOf(t) == t

NoOperands == Operands(origin, origin, Zero(0))

Idle == [pc |-> "idle", op |-> "origin", args |-> NoOperands, out |-> NaN]

InitThreads ==
    /\ a = origin
    /\ b = origin
    /\ s = Zero(0)
    /\ ret = NoCalls
    /\ th = [t \in Threads |-> Idle]
    /\ frame = [t \in Threads |-> NoOperands]

\* Thread t calls op: the operands are moved into the callee's frame.
Invoke(t, op, args) ==
    /\ th[t].pc = "idle"
    /\ th' = [th EXCEPT ![t] = [pc |-> "running", op |-> op, args |-> args, out |-> NaN]]
    /\ frame' = [frame EXCEPT ![StackOf(t)] = args]
    /\ UNCHANGED <<a, b, s, ret>>

\* The call of thread t computes its result from its frame and returns.
Return(t) ==
    /\ th[t].pc = "running"
    /\ th' = [th EXCEPT ![t].pc = "done",
                        ![t].out = Apply(th[t].op, frame[StackOf(t)])]
    /\ UNCHANGED <<a, b, s, ret, frame>>

NextThreads ==
    \/ \E t \in Threads, op \in OpNames, args \in OperandSets : Invoke(t, op, args)
    \/ \E t \in Threads : Return(t)

SpecThreads == InitThreads /\ [][NextThreads]_vars

===========================================================================
